---- MODULE Spec2Model ----
(***************************************************************************)
(* Session / token lifecycle of the playtomic frontend:                    *)
(*   AuthProvider (the auth store: tokens, currentUser, updateTokens),     *)
(*   useAuth (login, logout, the profile fetch),                           *)
(*   useRefreshToken (the proactive refresh), Login.handleSubmit.          *)
(*                                                                         *)
(* One AuthProvider with the components that call useAuth mounted under  *)
(* it (one in Spec, NumConsumers in SpecShared).  A React commit           *)
(* (the state setters of one handler, batched, and the render with its     *)
(* layout effects that follows) is one step.  The two useSWR hooks are     *)
(* modelled by what the options used in the source make them do: no fetch  *)
(* for a null key, a deduplicated fetch when the key changes to a non-null *)
(* one and when the browser comes back online, polling every               *)
(* refreshInterval by a timer of each hook instance (0 disables it, a      *)
(* cached error suspends it), the onSuccess / onError callbacks of the     *)
(* request that started the fetch, dropped when the hook's key has changed *)
(* meanwhile.                                                              *)
(*                                                                         *)
(* Time is in seconds (the source computes in milliseconds).  A timestamp  *)
(* is a positive integer; 0 stands for a missing / empty (falsy) one.      *)
(***************************************************************************)
EXTENDS Integers, Sequences, FiniteSets, TLC

\* ---------------------------------------------------------------- bounds
MaxTime == 60
MaxIssued == 2
NumSubmits == 2
NumConsumers == 2

\* lifetimes of the access tokens the remote service hands out, and of the
\* refresh tokens; amounts by which the clock is observed to advance
TTLs == {5, 12, 60}
RefreshTTLs == {100}
TickSteps == {10, 50}

\* ------------------------------------------------------ program constants
\* `10 * 1000` ms in useRefreshToken (fetcher guard and refreshInterval)
SAFETY_MARGIN == 10
\* useSWR's dedupingInterval, left at its default of 2000 ms by both hooks
DEDUPING_INTERVAL == 2

VARIABLES
    app,              \* AuthProvider's initialTokens prop, whether its
                      \* onAuthChange prop returns or throws, the number of
                      \* components that call useAuth under it, and whether
                      \* the provider (with them) is still mounted
    now,              \* new Date().getTime(), in seconds
    tokens,           \* AuthProvider state `tokens`
    currentUser,      \* AuthProvider state `currentUser`
    emitted,          \* the onAuthChange calls made by the last step
    lastOp,           \* the operation the last step performed and how it ended
    delivered,        \* the response the remote service delivered in the last step
    logins,           \* the handleSubmit / login() invocations: awaiting the
                      \* answer or not, and whether a login that overlaps this
                      \* one has committed its tokens meanwhile
    issued,           \* number of token pairs the remote service has issued
    refreshFetch,     \* useRefreshToken's request for key "auth-refresh"
    refreshErr,       \* the error cached for key "auth-refresh"
    refreshInterval,  \* the refreshInterval option computed by the last render
    timer,            \* the polling timer of useRefreshToken's useSWR, one for
                      \* each component that calls useAuth
    profileFetch      \* useAuth's request for key "GET /v1/users/me"

vars == <<app, now, tokens, currentUser, emitted, lastOp, delivered, logins, issued,
          refreshFetch, refreshErr, refreshInterval, timer, profileFetch>>

\* ------------------------------------------------------------ JS values
Undef == [v |-> "undefined"]
Null == [v |-> "null"]
NoString == [kind |-> "undefined", n |-> 0]

Max(a, b) == IF a >= b THEN a ELSE b

\* `x ? ... : ...` for an object-or-null-or-undefined value
IsPresent(x) == x # Undef /\ x # Null
\* `x ? ... : ...` for a timestamp
Truthy(ts) == ts # 0

Submits == 1..NumSubmits
Consumers == 1..app.consumers

\* ------------------------------------------------------- error messages
AlreadyAuthenticated == "User is already logged in."
InvalidCredentials == "Wrong credentials"
NotifierError == "onAuthChange threw"
NotAuthenticated == "No user is currently logged in."

\* --------------------------------------------------------- remote service
\* POST /v3/auth/login and POST /v3/auth/refresh: the n-th pair issued
IssuedPair(n, ttl, rttl) ==
    [accessToken |-> [kind |-> "access", n |-> n],
     accessTokenExpiresAt |-> now + ttl,
     refreshToken |-> [kind |-> "refresh", n |-> n],
     refreshTokenExpiresAt |-> now + rttl]

\* the body of a non-success answer: a message, no token fields
ErrorBody ==
    [accessToken |-> NoString,
     accessTokenExpiresAt |-> 0,
     refreshToken |-> NoString,
     refreshTokenExpiresAt |-> 0]

NoResponse == [from |-> "none"]

\* GET /v1/users/me
NoEmail == "undefined"
Emails == {"ann@x.com", NoEmail}
ProfileBody(email) == [userId |-> "u1", displayName |-> "Ann", email |-> email]

\* ------------------------------------------------------------ AuthProvider
ProvisionalUser == [email |-> "", name |-> "", userId |-> ""]

\* mutant: the provisional user is not derived
DerivedUserNever(t) == Null

\* updateTokens: `setCurrentUser(tokens ? {email:'',name:'',userId:''} : null)`
DerivedUser(t) == IF IsPresent(t) THEN ProvisionalUser ELSE Null

\* mutant: the change notifier is not called
updateTokensSilent(t) ==
    [tokens |-> t, currentUser |-> DerivedUser(t), emitted |-> <<>>]

\* `onAuthChange?.(tokens)` is the last statement of updateTokens and is not
\* guarded: what it throws reaches the caller of setTokens, after both
\* state setters have been called
notifierThrows == app.onAuthChange = "throws"

\* mutant: onAuthChange is called twice for one commit
updateTokensTwice(t) ==
    [tokens |-> t, currentUser |-> DerivedUser(t), emitted |-> <<t, t>>]

\* updateTokens: the store after the call and the onAuthChange call it makes
updateTokens(t) ==
    [tokens |-> t, currentUser |-> DerivedUser(t), emitted |-> <<t>>]

\* ------------------------------------------------------------------ useAuth
\* mutant: access is copied into refresh
ToTokensCopyPaste(data) ==
    [access |-> data.accessToken,
     accessExpiresAt |-> data.accessTokenExpiresAt,
     refresh |-> data.accessToken,
     refreshExpiresAt |-> data.refreshTokenExpiresAt]

\* the object login and the refresh fetcher pass to setTokens
ToTokens(data) ==
    [access |-> data.accessToken,
     accessExpiresAt |-> data.accessTokenExpiresAt,
     refresh |-> data.refreshToken,
     refreshExpiresAt |-> data.refreshTokenExpiresAt]

\* mutant: only null counts as logged out, undefined as logged in
loginGuardNotNull(cu) == cu # Null

\* mutant: the guard looks at the user's id, empty for a provisional user
loginGuardByUserId(cu) == IsPresent(cu) /\ cu.userId # ""

\* login: `if (authContext.currentUser) throw`
loginGuard(cu) == IsPresent(cu)

\* mutant: only null counts as logged out
logoutGuardNullOnly(cu) == cu = Null

\* logout: `if (!authContext.currentUser) throw`
logoutGuard(cu) == ~IsPresent(cu)

\* mutant: the answer's status is not looked at
responseFailedNever(ok) == FALSE

\* login and the refresh fetcher: `if (!response.ok) throw`
responseFailed(ok) == ~ok

\* mutant: the name is taken from userId
ToUserNameFromId(body) ==
    [email |-> IF body.email = NoEmail THEN "" ELSE body.email,
     userId |-> body.userId,
     name |-> body.userId]

\* onSuccess of the profile fetch
ToUser(body) ==
    [email |-> IF body.email = NoEmail THEN "" ELSE body.email,
     userId |-> body.userId,
     name |-> body.displayName]

NoKey == "null"

Op(op, result) == [op |-> op, result |-> result]
Idle == [pc |-> "idle", rival |-> FALSE]
\* The invocations are interchangeable, so the ones still awaiting their
\* answer are kept in the lowest slots, in the order they were submitted
Pack(l) ==
    LET waiting == SelectSeq(l, LAMBDA e : e.pc = "awaiting")
    IN [j \in Submits |-> IF j <= Len(waiting) THEN waiting[j] ELSE Idle]

\* the key of useAuth's useSWR
ProfileKey(t) == IF IsPresent(t) THEN "GET /v1/users/me" ELSE NoKey

\* ---------------------------------------------------------- useRefreshToken
HasExpiry(t) == IsPresent(t) /\ Truthy(t.accessExpiresAt)

\* the key of useRefreshToken's useSWR
RefreshKey(t) == IF HasExpiry(t) THEN "auth-refresh" ELSE NoKey

\* mutant: the safety margin is left out of the delay
refreshIntervalOfNoMargin(t, n) ==
    IF HasExpiry(t) THEN Max(t.accessExpiresAt - n, 0) ELSE 0

\* the refreshInterval option a render at time n computes
refreshIntervalOf(t, n) ==
    IF HasExpiry(t) THEN Max(t.accessExpiresAt - n - SAFETY_MARGIN, 0) ELSE 0

\* mutant: the fetcher exchanges whenever it runs, however long is left
fetcherStartEager(t, n) ==
    IF ~HasExpiry(t) THEN "throw" ELSE "exchange"

\* the fetcher up to its first await: what it does when run at time n
fetcherStart(t, n) ==
    IF ~HasExpiry(t) THEN "throw"
    ELSE IF t.accessExpiresAt - n <= SAFETY_MARGIN THEN "exchange"
    ELSE "skip"

\* ----------------------------------------------------------------- useSWR
NoFetch == [state |-> "none"]
\* a resolved request, kept for `left` more seconds
Done == [state |-> "done", left |-> DEDUPING_INTERVAL]
Elapse(f, d) == IF f.state = "done" THEN [f EXCEPT !.left = Max(@ - d, 0)] ELSE f
TimerOff == [armed |-> FALSE, due |-> 0]

\* mutant: callbacks run whatever the hook's key has become
callbackSafeguardNone(key, keyNow) == TRUE

\* onSuccess / onError run only while the hook still has the request's key
callbackSafeguard(key, keyNow) == key = keyNow

\* revalidate({dedupe: true}) of the refresh hook at time n with tokens t:
\* nothing while a request is in flight or was made less than
\* DEDUPING_INTERVAL ago, else the fetcher runs
revalidate(rf, rerr, t, n) ==
    IF rf.state # "none" THEN [fetch |-> rf, err |-> rerr, ran |-> "deduped"]
    ELSE LET what == fetcherStart(t, n) IN
         CASE what = "exchange" ->
                [fetch |-> [state |-> "exchange", refreshToken |-> t.refresh],
                 err |-> rerr, ran |-> what]
           [] what = "skip" ->
                [fetch |-> Done, err |-> FALSE, ran |-> what]
           [] OTHER ->
                [fetch |-> NoFetch, err |-> TRUE, ran |-> what]

\* the polling effect: `if (interval) timer = setTimeout(execute, interval)`
arm(key, interval, n) ==
    IF key # NoKey /\ interval > 0 THEN [armed |-> TRUE, due |-> n + interval]
    ELSE TimerOff

\* mutant: a request that failed is sent again by the next render
RenderHooksRetry(old, new, rf, rerr, pf) ==
    LET rk == RefreshKey(new)
        pk == ProfileKey(new)
        rv == IF rk # NoKey /\ rk # RefreshKey(old)
              THEN revalidate(rf, rerr, new, now)
              ELSE [fetch |-> rf, err |-> rerr, ran |-> "none"]
        iv == refreshIntervalOf(new, now)
    IN [refreshFetch |->
            IF rerr /\ rf.state = "none" /\ IsPresent(old)
            THEN [state |-> "exchange", refreshToken |-> old.refresh]
            ELSE rv.fetch,
        refreshErr |-> rv.err,
        refreshInterval |-> iv,
        timer |-> arm(rk, iv, now),
        profileFetch |->
            IF pk # NoKey /\ pk # ProfileKey(old) /\ pf.state = "none"
            THEN [state |-> "inflight"]
            ELSE pf]

\* The hooks' effects of the render that follows a commit which took the
\* tokens from old to new: the interval is recomputed and the timer re-armed,
\* a key that changed to a non-null one revalidates.
RenderHooks(old, new, rf, rerr, pf) ==
    LET rk == RefreshKey(new)
        pk == ProfileKey(new)
        rv == IF rk # NoKey /\ rk # RefreshKey(old)
              THEN revalidate(rf, rerr, new, now)
              ELSE [fetch |-> rf, err |-> rerr, ran |-> "none"]
        iv == refreshIntervalOf(new, now)
    IN [refreshFetch |-> rv.fetch,
        refreshErr |-> rv.err,
        refreshInterval |-> iv,
        timer |-> arm(rk, iv, now),
        profileFetch |->
            IF pk # NoKey /\ pk # ProfileKey(old) /\ pf.state = "none"
            THEN [state |-> "inflight"]
            ELSE pf]

\* mutant: the polling effect has no cleanup, so a timer armed by an earlier
\* render stays pending when the new render arms none
RenderedNoCleanup(r) ==
    /\ refreshFetch' = r.refreshFetch
    /\ refreshErr' = r.refreshErr
    /\ refreshInterval' = r.refreshInterval
    /\ timer' = [c \in Consumers |-> IF r.timer.armed THEN r.timer ELSE timer[c]]
    /\ profileFetch' = r.profileFetch

\* every component that calls useAuth renders and runs the effects of its
\* own hook instances; the requests and the cache are shared by key
Rendered(r) ==
    /\ refreshFetch' = r.refreshFetch
    /\ refreshErr' = r.refreshErr
    /\ refreshInterval' = r.refreshInterval
    /\ timer' = [c \in Consumers |-> r.timer]
    /\ profileFetch' = r.profileFetch

\* ------------------------------------------------------------------- Init
\* the pair a caller hands to AuthProvider as initialTokens
InitialPair ==
    [access |-> [kind |-> "access", n |-> 0],
     accessExpiresAt |-> 60,
     refresh |-> [kind |-> "refresh", n |-> 0],
     refreshExpiresAt |-> 100]

\* AuthProvider created with props.initialTokens = given and an onAuthChange
\* that behaves as notifier says, n components calling useAuth under it:
\* both states start as useState(undefined)
InitWith(given, notifier, n) ==
    /\ app = [initialTokens |-> given, onAuthChange |-> notifier,
              consumers |-> n, mounted |-> TRUE]
    /\ timer = [c \in 1..n |-> TimerOff]
    /\ now = 0
    /\ tokens = Undef
    /\ currentUser = Undef
    /\ emitted = <<>>
    /\ lastOp = Op("init", "ok")
    /\ delivered = NoResponse
    /\ logins = [i \in Submits |-> Idle]
    /\ issued = 0
    /\ refreshFetch = NoFetch
    /\ refreshErr = FALSE
    /\ refreshInterval = 0
    /\ profileFetch = NoFetch

Init == InitWith(Undef, "returns", 1)
InitShared == InitWith(Undef, "returns", NumConsumers)
InitHydrated == InitWith(InitialPair, "returns", 1)
InitNotifierThrows == InitWith(Undef, "throws", 1)

\* ---------------------------------------------------------------- actions
\* Login.handleSubmit: setError / setIsSubmitting(true), then auth.login() up
\* to its await; a rejected call settles at once (.catch, .finally)
handleSubmit(i) ==
    /\ app.mounted
    /\ logins[i].pc = "idle"
    /\ \A j \in Submits : j < i => logins[j].pc = "awaiting"
    /\ IF loginGuard(currentUser)
       THEN /\ lastOp' = Op("login", AlreadyAuthenticated)
            /\ UNCHANGED logins
       ELSE /\ lastOp' = Op("login", "awaiting")
            /\ logins' = [logins EXCEPT ![i] = [pc |-> "awaiting", rival |-> FALSE]]
    /\ emitted' = <<>>
    /\ delivered' = NoResponse
    /\ Rendered(RenderHooks(tokens, tokens, refreshFetch, refreshErr, profileFetch))
    /\ UNCHANGED <<app, now, tokens, currentUser, issued>>

\* login() after its await: the answer of POST /v3/auth/login, then
\* handleSubmit's .catch / .finally (setError, setIsSubmitting(false))
loginResponse(i, ok, ttl, rttl) ==
    /\ app.mounted
    /\ logins[i].pc = "awaiting"
    /\ ok => issued < MaxIssued
    /\ LET data == IF ok THEN IssuedPair(issued + 1, ttl, rttl) ELSE ErrorBody
           st == updateTokens(ToTokens(data))
       IN /\ delivered' = [from |-> "login", ok |-> ok, data |-> data]
          /\ issued' = IF ok THEN issued + 1 ELSE issued
          /\ IF responseFailed(ok)
             THEN /\ logins' = Pack([logins EXCEPT ![i] = Idle])
                  /\ lastOp' = Op("loginResponse", InvalidCredentials)
                  /\ emitted' = <<>>
                  /\ UNCHANGED <<tokens, currentUser>>
                  /\ Rendered(RenderHooks(tokens, tokens, refreshFetch, refreshErr,
                                          profileFetch))
             ELSE /\ logins' = Pack([j \in Submits |->
                        IF j = i THEN Idle
                        ELSE IF logins[j].pc = "awaiting"
                             THEN [logins[j] EXCEPT !.rival = TRUE]
                             ELSE logins[j]])
                  /\ lastOp' = Op("loginResponse",
                                  IF notifierThrows THEN NotifierError ELSE "ok")
                  /\ tokens' = st.tokens
                  /\ currentUser' = st.currentUser
                  /\ emitted' = st.emitted
                  /\ Rendered(RenderHooks(tokens, st.tokens, refreshFetch, refreshErr,
                                          profileFetch))
    /\ UNCHANGED <<app, now>>

\* mutant: logout clears currentUser and leaves the tokens
logoutKeepsTokens ==
    /\ app.mounted
    /\ delivered' = NoResponse
    /\ emitted' = <<>>
    /\ IF logoutGuard(currentUser)
       THEN /\ lastOp' = Op("logout", NotAuthenticated)
            /\ UNCHANGED <<tokens, currentUser, refreshFetch, refreshErr,
                           refreshInterval, timer, profileFetch>>
       ELSE /\ lastOp' = Op("logout", "ok")
            /\ currentUser' = Null
            /\ Rendered(RenderHooks(tokens, tokens, refreshFetch, refreshErr,
                                    profileFetch))
            /\ UNCHANGED tokens
    /\ UNCHANGED <<app, now, logins, issued>>

\* logout()
logout ==
    /\ app.mounted
    /\ delivered' = NoResponse
    /\ IF logoutGuard(currentUser)
       THEN /\ lastOp' = Op("logout", NotAuthenticated)
            /\ emitted' = <<>>
            /\ UNCHANGED <<tokens, currentUser, refreshFetch, refreshErr,
                           refreshInterval, timer, profileFetch>>
       ELSE LET st == updateTokens(Null) IN
            /\ lastOp' = Op("logout",
                            IF notifierThrows THEN NotifierError ELSE "ok")
            /\ tokens' = st.tokens
            /\ currentUser' = Null
            /\ emitted' = st.emitted
            /\ Rendered(RenderHooks(tokens, st.tokens, refreshFetch, refreshErr,
                                    profileFetch))
    /\ UNCHANGED <<app, now, logins, issued>>

\* the clock advances
Tick(d) ==
    /\ app.mounted
    /\ now + d <= MaxTime
    /\ now' = now + d
    /\ lastOp' = Op("tick", "ok")
    /\ emitted' = <<>>
    /\ delivered' = NoResponse
    /\ refreshFetch' = Elapse(refreshFetch, d)
    /\ profileFetch' = Elapse(profileFetch, d)
    /\ UNCHANGED <<app, tokens, currentUser, logins, issued, refreshErr,
                   refreshInterval, timer>>

\* the polling timer of consumer c fires: execute() of useSWR's polling effect
timerFire(c) ==
    /\ timer[c].armed
    /\ now >= timer[c].due
    /\ delivered' = NoResponse
    /\ IF refreshErr
       THEN \* a cached error suspends polling: next() only
            /\ lastOp' = Op("timer", "suspended")
            /\ emitted' = <<>>
            /\ timer' = [timer EXCEPT ![c] =
                             arm(RefreshKey(tokens), refreshInterval, now)]
            /\ UNCHANGED <<tokens, currentUser, refreshFetch, refreshErr,
                           refreshInterval, profileFetch>>
       ELSE LET rv == revalidate(refreshFetch, refreshErr, tokens, now) IN
            IF rv.ran = "throw"
            THEN \* "Tokens are not available": onError
                 LET st == updateTokens(Null) IN
                 /\ lastOp' = Op("timer", "throw")
                 /\ tokens' = st.tokens
                 /\ currentUser' = Null
                 /\ emitted' = st.emitted
                 /\ Rendered(RenderHooks(tokens, st.tokens, rv.fetch, rv.err,
                                         profileFetch))
            ELSE /\ lastOp' = Op("timer", rv.ran)
                 /\ emitted' = <<>>
                 /\ refreshFetch' = rv.fetch
                 /\ refreshErr' = rv.err
                 \* revalidate().then(next): re-armed with the interval of the
                 \* render that armed it, once the request has resolved
                 /\ timer' = [timer EXCEPT ![c] =
                        IF rv.fetch.state = "exchange" THEN TimerOff
                        ELSE arm(RefreshKey(tokens), refreshInterval, now)]
                 /\ UNCHANGED <<tokens, currentUser, refreshInterval, profileFetch>>
    /\ UNCHANGED <<app, now, logins, issued>>

\* the fetcher of useRefreshToken after its await: the answer of
\* POST /v3/auth/refresh, then useSWR's handling of the fetcher's result
refreshResponse(ok, ttl, rttl) ==
    /\ app.mounted
    /\ refreshFetch.state = "exchange"
    /\ ok => issued < MaxIssued
    /\ LET data == IF ok THEN IssuedPair(issued + 1, ttl, rttl) ELSE ErrorBody
           st == updateTokens(ToTokens(data))
           out == updateTokens(Null)
       IN /\ delivered' = [from |-> "refresh", ok |-> ok, data |-> data]
          /\ issued' = IF ok THEN issued + 1 ELSE issued
          /\ IF ~responseFailed(ok) /\ notifierThrows
             THEN \* setTokens({...}) throws after its setters: the fetcher
                  \* rejects, and useSWR handles that as a failed request
                  /\ lastOp' = Op("refreshResponse", NotifierError)
                  /\ IF callbackSafeguard("auth-refresh", RefreshKey(tokens))
                     THEN \* onError: setTokens(null); the setters of both calls
                          \* are committed together
                          /\ tokens' = out.tokens
                          /\ currentUser' = out.currentUser
                          /\ emitted' = st.emitted \o out.emitted
                          /\ Rendered(RenderHooks(tokens, out.tokens, NoFetch, TRUE,
                                                  profileFetch))
                     ELSE /\ tokens' = st.tokens
                          /\ currentUser' = st.currentUser
                          /\ emitted' = st.emitted
                          /\ Rendered(RenderHooks(tokens, st.tokens, NoFetch, TRUE,
                                                  profileFetch))
             ELSE IF ~responseFailed(ok)
             THEN \* setTokens({...}); the request stays for the deduping interval
                  /\ lastOp' = Op("refreshResponse", "ok")
                  /\ tokens' = st.tokens
                  /\ currentUser' = st.currentUser
                  /\ emitted' = st.emitted
                  /\ Rendered(RenderHooks(tokens, st.tokens,
                                          Done, FALSE,
                                          profileFetch))
             ELSE IF callbackSafeguard("auth-refresh", RefreshKey(tokens))
             THEN \* onError: setTokens(null); setCurrentUser(null)
                  /\ lastOp' = Op("refreshResponse", "failed")
                  /\ tokens' = out.tokens
                  /\ currentUser' = Null
                  /\ emitted' = out.emitted
                  /\ Rendered(RenderHooks(tokens, out.tokens, NoFetch, TRUE,
                                          profileFetch))
             ELSE \* the hook's key changed while in flight: no callback
                  /\ lastOp' = Op("refreshResponse", "dropped")
                  /\ emitted' = <<>>
                  /\ refreshFetch' = NoFetch
                  /\ refreshErr' = TRUE
                  /\ UNCHANGED <<tokens, currentUser, refreshInterval, timer,
                                 profileFetch>>
    /\ UNCHANGED <<app, now, logins>>

\* the fetcher of useAuth's useSWR after its await: the answer of
\* GET /v1/users/me, then onSuccess
profileResponse(ok, email) ==
    /\ app.mounted
    /\ profileFetch.state = "inflight"
    /\ delivered' = [from |-> "profile", ok |-> ok, data |-> ProfileBody(email)]
    /\ emitted' = <<>>
    /\ IF responseFailed(ok)
       THEN \* thrown; shouldRetryOnError: false, no onError
            /\ lastOp' = Op("profileResponse", "failed")
            /\ profileFetch' = NoFetch
            /\ UNCHANGED <<currentUser, refreshFetch, refreshErr, refreshInterval,
                           timer>>
       ELSE IF callbackSafeguard("GET /v1/users/me", ProfileKey(tokens))
       THEN /\ lastOp' = Op("profileResponse", "ok")
            /\ currentUser' = ToUser(ProfileBody(email))
            /\ Rendered(RenderHooks(tokens, tokens, refreshFetch, refreshErr,
                                    Done))
       ELSE /\ lastOp' = Op("profileResponse", "dropped")
            /\ profileFetch' = Done
            /\ UNCHANGED <<currentUser, refreshFetch, refreshErr, refreshInterval,
                           timer>>
    /\ UNCHANGED <<app, now, tokens, logins, issued>>

\* useSWR forgets a resolved request DEDUPING_INTERVAL after it resolved
dedupeCleanup(hook) ==
    /\ app.mounted
    /\ \/ /\ hook = "refresh"
          /\ refreshFetch.state = "done"
          /\ refreshFetch.left = 0
          /\ refreshFetch' = NoFetch
          /\ UNCHANGED profileFetch
       \/ /\ hook = "profile"
          /\ profileFetch.state = "done"
          /\ profileFetch.left = 0
          /\ profileFetch' = NoFetch
          /\ UNCHANGED refreshFetch
    /\ lastOp' = Op("cleanup", "ok")
    /\ emitted' = <<>>
    /\ delivered' = NoResponse
    /\ UNCHANGED <<app, now, tokens, currentUser, logins, issued, refreshErr,
                   refreshInterval, timer>>

\* the browser comes back online: revalidateOnReconnect is left at its default
\* by both hooks, so each revalidates (deduplicated) if its key is not null;
\* when both revalidations are deduplicated nothing happens at all
reconnect ==
    /\ app.mounted
    /\ IsPresent(tokens)
    /\ \/ refreshFetch.state = "none"
       \/ profileFetch.state = "none"
    /\ LET rv == IF RefreshKey(tokens) # NoKey
                 THEN revalidate(refreshFetch, refreshErr, tokens, now)
                 ELSE [fetch |-> refreshFetch, err |-> refreshErr, ran |-> "none"]
       IN /\ rv.ran # "throw"
          /\ lastOp' = Op("reconnect", rv.ran)
          /\ refreshFetch' = rv.fetch
          /\ refreshErr' = rv.err
    /\ profileFetch' = IF ProfileKey(tokens) # NoKey /\ profileFetch.state = "none"
                       THEN [state |-> "inflight"]
                       ELSE profileFetch
    /\ emitted' = <<>>
    /\ delivered' = NoResponse
    /\ UNCHANGED <<app, now, tokens, currentUser, logins, issued, refreshInterval,
                   timer>>

\* mutant: the hooks unmount and leave their polling timers pending
unmountKeepsTimers ==
    /\ app.mounted
    /\ app' = [app EXCEPT !.mounted = FALSE]
    /\ lastOp' = Op("unmount", "ok")
    /\ emitted' = <<>>
    /\ delivered' = NoResponse
    /\ UNCHANGED <<now, tokens, currentUser, logins, issued, refreshFetch,
                   refreshErr, refreshInterval, timer, profileFetch>>

\* the provider and the components under it unmount: the cleanup of each
\* hook's polling effect clears its timer, and the listeners are removed.
\* The model follows the store up to here: what is still in flight answers
\* to components that are gone.
unmount ==
    /\ app.mounted
    /\ app' = [app EXCEPT !.mounted = FALSE]
    /\ timer' = [c \in Consumers |-> TimerOff]
    /\ lastOp' = Op("unmount", "ok")
    /\ emitted' = <<>>
    /\ delivered' = NoResponse
    /\ UNCHANGED <<now, tokens, currentUser, logins, issued, refreshFetch,
                   refreshErr, refreshInterval, profileFetch>>

Next ==
    \/ \E i \in Submits : handleSubmit(i)
    \/ \E i \in Submits, ok \in BOOLEAN, ttl \in TTLs, rttl \in RefreshTTLs :
          loginResponse(i, ok, ttl, rttl)
    \/ logout
    \/ \E d \in TickSteps : Tick(d)
    \/ \E c \in Consumers : timerFire(c)
    \/ \E ok \in BOOLEAN, ttl \in TTLs, rttl \in RefreshTTLs :
          refreshResponse(ok, ttl, rttl)
    \/ \E ok \in BOOLEAN, email \in Emails : profileResponse(ok, email)
    \/ \E hook \in {"refresh", "profile"} : dedupeCleanup(hook)
    \/ reconnect
    \/ unmount

\* one component calls useAuth, no initialTokens
Spec == Init /\ [][Next]_vars
\* NumConsumers components call useAuth at once
SpecShared == InitShared /\ [][Next]_vars
\* AuthProvider is created with initialTokens
SpecHydrated == InitHydrated /\ [][Next]_vars
\* the onAuthChange handed to AuthProvider throws at every call
SpecNotifierThrows == InitNotifierThrows /\ [][Next]_vars

\* ------------------------------------------------------------------ claims
Committed ==
    /\ lastOp.op \in {"loginResponse", "refreshResponse"}
    /\ lastOp.result = "ok"

C2_UserWheneverTokens == IsPresent(tokens) => IsPresent(currentUser)

\* the state right after a login committed its tokens
C2_Witness ==
    /\ lastOp = Op("loginResponse", "ok")
    /\ IsPresent(tokens)
    /\ currentUser = ProvisionalUser

\* C3: of two login() calls that overlap (the second issued before the
\* first's exchange resolved), only one commits tokens: the login that
\* settles after its rival has committed leaves tokens alone and notifies
\* no one.
C3_OverlappingLoginsCommitOnce ==
    [][\A i \in Submits :
          (logins[i].pc = "awaiting" /\ logins[i].rival /\ logins'[i].pc = "idle")
              => (tokens' = tokens /\ emitted' = <<>>)]_vars

\* C4: login() called while currentUser is present (provisional or resolved)
\* fails with AlreadyAuthenticated, starts no exchange, leaves tokens and
\* currentUser as they were and does not call the change notifier.
C4_LoginWhileAuthenticated ==
    [][(lastOp'.op = "login" /\ IsPresent(currentUser)) =>
          /\ lastOp'.result = AlreadyAuthenticated
          /\ logins' = logins
          /\ refreshFetch' = refreshFetch
          /\ profileFetch' = profileFetch
          /\ tokens' = tokens
          /\ currentUser' = currentUser
          /\ emitted' = <<>>]_vars

\* login() was rejected while a resolved user was logged in
C4_Witness ==
    /\ lastOp = Op("login", AlreadyAuthenticated)
    /\ IsPresent(tokens)
    /\ IsPresent(currentUser)
    /\ currentUser.userId = "u1"

\* C5: logout() called while currentUser is not present fails with
\* NotAuthenticated, leaves tokens and currentUser as they were and does not
\* call the change notifier.
C5_LogoutWhileUnauthenticated ==
    [][(lastOp'.op = "logout" /\ ~IsPresent(currentUser)) =>
          /\ lastOp'.result = NotAuthenticated
          /\ tokens' = tokens
          /\ currentUser' = currentUser
          /\ emitted' = <<>>]_vars

\* logout() was rejected after an earlier logout
C5_Witness ==
    /\ lastOp = Op("logout", NotAuthenticated)
    /\ tokens = Null
    /\ currentUser = Null

\* C6: when the remote service answers a login exchange with a non-success
\* response, login() fails with InvalidCredentials and the step leaves
\* tokens and currentUser as they were and does not call the change notifier.
C6_RejectedLoginChangesNothing ==
    [][(lastOp'.op = "loginResponse" /\ ~delivered'.ok) =>
          /\ lastOp'.result = InvalidCredentials
          /\ tokens' = tokens
          /\ currentUser' = currentUser
          /\ emitted' = <<>>]_vars

\* a login was answered with a non-success response
C6_Witness ==
    /\ lastOp = Op("loginResponse", InvalidCredentials)
    /\ delivered.from = "login"
    /\ ~delivered.ok

C8_RefreshReplacesPair ==
    lastOp = Op("refreshResponse", "ok") =>
        /\ tokens = [access |-> delivered.data.accessToken,
                     accessExpiresAt |-> delivered.data.accessTokenExpiresAt,
                     refresh |-> delivered.data.refreshToken,
                     refreshExpiresAt |-> delivered.data.refreshTokenExpiresAt]
        /\ refreshInterval =
               Max(delivered.data.accessTokenExpiresAt - now - SAFETY_MARGIN, 0)
        /\ \A c \in Consumers : timer[c].armed =>
               timer[c].due = delivered.data.accessTokenExpiresAt - SAFETY_MARGIN

\* a refresh succeeded and a timer is armed for the new pair
C8_Witness ==
    /\ lastOp = Op("refreshResponse", "ok")
    /\ tokens.access.n = 2
    /\ timer[1].armed

\* C9: when a token pair is committed whose accessExpiresAt is within the
\* safety margin of now (or past), the delay is 0 and a refresh exchange is
\* started at once.
C9_ZeroDelayRefreshesAtOnce ==
    (Committed /\ HasExpiry(tokens)
        /\ tokens.accessExpiresAt - now <= SAFETY_MARGIN)
    => (refreshInterval = 0 /\ refreshFetch.state = "exchange")

\* C10: the delay a commit computes is max(accessExpiresAt - now - 10s, 0),
\* 50s for accessExpiresAt = now + 60s, and no refresh exchange starts
\* before accessExpiresAt - 10s, that is, before the delay has elapsed.
C10_DelayAndNoEarlyRefresh ==
    [][/\ (Committed' /\ HasExpiry(tokens')) =>
             /\ refreshInterval' = Max(tokens'.accessExpiresAt - now' - 10, 0)
             /\ tokens'.accessExpiresAt = now' + 60 => refreshInterval' = 50
       /\ (refreshFetch'.state = "exchange" /\ refreshFetch.state # "exchange") =>
             /\ HasExpiry(tokens')
             /\ now' >= tokens'.accessExpiresAt - 10]_vars

\* the timer of a pair committed with 60s to live fired 50s later and
\* started the exchange
C10_Witness ==
    /\ lastOp = Op("timer", "exchange")
    /\ refreshInterval = 50
    /\ now = tokens.accessExpiresAt - 10
    /\ refreshFetch.state = "exchange"

(***************************************************************************)
(* C11                                                                     *)
(***************************************************************************)
\* the refresh timers pending for the store
PendingTimers == {c \in Consumers : timer[c].armed}

\* C11: at most one scheduled refresh task is pending for the store at any
\* time, also when several components use the auth hook at once.  Violated
\* under SpecShared: useRefreshToken runs inside every useAuth call, so every
\* consumer's hook instance arms a polling timer of its own.
C11_AtMostOneTimer ==
    Cardinality(PendingTimers) <= 1

(***************************************************************************)
(* C12                                                                     *)
(***************************************************************************)
\* this step sends a refresh exchange
RefreshExchangeSent ==
    /\ refreshFetch.state # "exchange"
    /\ refreshFetch'.state = "exchange"

\* C12: while the tokens are absent or uninitialized no refresh timer is
\* armed, and no step sends a refresh exchange unless the tokens it leaves
\* committed are present.
C12_NoRefreshWithoutTokens ==
    [][ /\ ~IsPresent(tokens') => PendingTimers' = {}
        /\ RefreshExchangeSent => IsPresent(tokens') ]_vars

\* a logout cancelled the timer of the session it ended
C12_Witness ==
    /\ lastOp = Op("logout", "ok")
    /\ tokens = Null
    /\ issued >= 1
    /\ PendingTimers = {}
    /\ refreshFetch.state # "exchange"

(***************************************************************************)
(* C13                                                                     *)
(***************************************************************************)
\* C13: each successful login and each successful logout calls onAuthChange
\* exactly once, with the token value it commits: the pair of the login's
\* response, or null for a logout.
C13_OneNotificationPerTransition ==
    /\ lastOp = Op("loginResponse", "ok") =>
          /\ IsPresent(tokens)
          /\ tokens = ToTokens(delivered.data)
          /\ emitted = <<tokens>>
    /\ lastOp = Op("logout", "ok") =>
          /\ tokens = Null
          /\ emitted = <<Null>>

\* a logout that ended a session begun by a login has just notified null
C13_Witness ==
    /\ lastOp = Op("logout", "ok")
    /\ issued >= 1
    /\ Len(emitted) = 1
    /\ emitted[1] = Null

(***************************************************************************)
(* C14                                                                     *)
(***************************************************************************)
\* C14: a successful login leaves the tokens with the provisional user
\* (userId, name and email empty), and a profile response that succeeds
\* during the session makes currentUser the user of the response (userId,
\* name from displayName, email), with the tokens unchanged and no
\* onAuthChange call.
C14_ProfileResolvesUser ==
    [][ /\ lastOp' = Op("loginResponse", "ok") =>
              /\ IsPresent(tokens')
              /\ currentUser' = [email |-> "", name |-> "", userId |-> ""]
        /\ (/\ lastOp'.op = "profileResponse"
            /\ delivered'.ok
            /\ IsPresent(tokens)) =>
              /\ currentUser'.userId = delivered'.data.userId
              /\ currentUser'.name = delivered'.data.displayName
              /\ currentUser'.email \in {delivered'.data.email, ""}
              /\ currentUser'.email = "" <=> delivered'.data.email = NoEmail
              /\ tokens' = tokens
              /\ emitted' = <<>> ]_vars

\* the profile of the session just resolved the provisional user
C14_Witness ==
    /\ lastOp = Op("profileResponse", "ok")
    /\ IsPresent(tokens)
    /\ currentUser = [email |-> "ann@x.com", name |-> "Ann", userId |-> "u1"]
    /\ emitted = <<>>

(***************************************************************************)
(* C15                                                                     *)
(***************************************************************************)
\* C15: an AuthProvider created with initialTokens that are present starts
\* with tokens equal to initialTokens (and only without them uninitialized).
\* Violated under SpecHydrated: the prop is destructured and never read, both
\* states start as useState(undefined).
C15_StartsFromInitialTokens ==
    (lastOp = Op("init", "ok") /\ IsPresent(app.initialTokens)) =>
        tokens = app.initialTokens

(***************************************************************************)
(* C16                                                                     *)
(***************************************************************************)
\* C16: logout() called while currentUser is present succeeds, starts no
\* network exchange, and leaves tokens and currentUser both absent; after
\* no commit is one of the two present while the other is not.
C16_LogoutClearsBoth ==
    [][ /\ (lastOp'.op = "logout" /\ IsPresent(currentUser)) =>
              /\ lastOp'.result = "ok"
              /\ tokens' = Null
              /\ currentUser' = Null
              /\ refreshFetch' = refreshFetch
              /\ profileFetch' = profileFetch
              /\ logins' = logins
              /\ delivered' = NoResponse
        /\ IsPresent(tokens') <=> IsPresent(currentUser') ]_vars

\* a session whose profile had resolved was logged out
C16_Witness ==
    /\ lastOp = Op("logout", "ok")
    /\ tokens = Null
    /\ currentUser = Null
    /\ profileFetch.state = "done"

(***************************************************************************)
(* C17                                                                     *)
(***************************************************************************)
\* this step starts the profile fetch
ProfileFetchStarted ==
    /\ profileFetch.state # "inflight"
    /\ profileFetch'.state = "inflight"

\* C17: the profile fetch is started exactly in the steps that take the
\* tokens from not present to present, once in each, and never in a step
\* that leaves the tokens absent.  Violated: the start is deduplicated away
\* when tokens become present while an earlier profile request is in flight
\* or has resolved less than DEDUPING_INTERVAL ago, and a reconnect starts
\* it with no change of the tokens.
C17_ProfileFetchOncePerLogin ==
    [][ /\ ProfileFetchStarted <=> (~IsPresent(tokens) /\ IsPresent(tokens'))
        /\ ProfileFetchStarted => IsPresent(tokens') ]_vars

(***************************************************************************)
(* C18                                                                     *)
(***************************************************************************)
\* C18: a profile fetch that fails changes neither tokens nor currentUser,
\* calls no onAuthChange and is not retried: the step that handles the
\* failure leaves no profile request in flight, and a profile fetch only
\* ever starts when the tokens become present or the browser reconnects.
C18_FailedProfileChangesNothing ==
    [][ /\ (lastOp'.op = "profileResponse" /\ ~delivered'.ok) =>
              /\ tokens' = tokens
              /\ currentUser' = currentUser
              /\ emitted' = <<>>
              /\ profileFetch'.state = "none"
              /\ logins' = logins
        /\ ProfileFetchStarted =>
              \/ ~IsPresent(tokens) /\ IsPresent(tokens')
              \/ lastOp'.op = "reconnect" ]_vars

\* the profile fetch of a live session failed: the session goes on with
\* the provisional user
C18_Witness ==
    /\ lastOp = Op("profileResponse", "failed")
    /\ IsPresent(tokens)
    /\ currentUser = ProvisionalUser
    /\ profileFetch = NoFetch
    /\ emitted = <<>>

(***************************************************************************)
(* C19                                                                     *)
(***************************************************************************)
\* C19: the refresh chain never stops on its own: while tokens are present
\* a refresh for them is always either scheduled (a timer is armed) or in
\* flight, whatever delay their expiry yields.  Violated: a pair committed
\* by a successful refresh with 10s or less to live yields refreshInterval
\* 0, which arms nothing and starts nothing (C9).
C19_RefreshChainNeverStops ==
    IsPresent(tokens) =>
        \/ PendingTimers # {}
        \/ refreshFetch.state = "exchange"

(***************************************************************************)
(* C20                                                                     *)
(***************************************************************************)
\* the refresh fetcher is run by this step, by the timer or by a reconnect
RefreshTaskRan ==
    /\ lastOp'.op \in {"timer", "reconnect"}
    /\ lastOp'.result \in {"exchange", "skip", "throw"}

RefreshExchangeStarted ==
    /\ refreshFetch'.state = "exchange"
    /\ \/ refreshFetch' # refreshFetch
       \/ lastOp'.result = "exchange"

\* C21: at most one refresh exchange is in flight: while one is in flight
\* (it was before the step and still is after it) no other exchange starts
\* and no timer is armed.  Violated in its second part: a login that commits
\* while the exchange of an earlier pair is in flight arms the timer of the
\* new pair.
C21_RefreshRunsToCompletion ==
    [][ /\ RefreshExchangeStarted => refreshFetch.state # "exchange"
        /\ (refreshFetch.state = "exchange" /\ refreshFetch'.state = "exchange") =>
              \A c \in Consumers : timer'[c].armed => timer'[c] = timer[c] ]_vars

(***************************************************************************)
(* C22                                                                     *)
(***************************************************************************)
\* C22: a refresh failure is not retried: the step that handles the failed
\* answer leaves the tokens absent, no refresh exchange in flight and no
\* timer armed, and from a state with tokens absent and no exchange in
\* flight only a login that succeeds makes the tokens present or starts a
\* refresh exchange.
C22_NoRetryAfterRefreshFailure ==
    [][ /\ (lastOp'.op = "refreshResponse" /\ ~delivered'.ok) =>
              /\ ~IsPresent(tokens')
              /\ refreshFetch'.state = "none"
              /\ PendingTimers' = {}
        /\ (/\ ~IsPresent(tokens)
            /\ refreshFetch.state # "exchange"
            /\ IsPresent(tokens') \/ refreshFetch'.state = "exchange") =>
              lastOp' = Op("loginResponse", "ok") ]_vars

\* the refresh started by the timer 50s into the session failed and nothing
\* is left running
C22_Witness ==
    /\ lastOp = Op("refreshResponse", "failed")
    /\ now >= 50
    /\ tokens = Null
    /\ refreshErr
    /\ refreshFetch = NoFetch
    /\ PendingTimers = {}

(***************************************************************************)
(* C23                                                                     *)
(***************************************************************************)
\* C23: a successful refresh of a live session re-triggers the profile
\* fetch, as a fresh login does: after the commit, which sets the
\* provisional user, a profile request is in flight to resolve it.
\* Violated: the profile hook's key does not change on a refresh, so
\* nothing is fetched and the provisional user stays.
C23_RefreshRefetchesProfile ==
    [][ (/\ lastOp' = Op("refreshResponse", "ok")
         /\ IsPresent(tokens)) =>
            /\ currentUser' = ProvisionalUser
            /\ profileFetch'.state = "inflight" ]_vars

(***************************************************************************)
(* C24                                                                     *)
(***************************************************************************)
\* C24: once the provider has unmounted no refresh timer is pending, and
\* no later step is a refresh task firing, sends a refresh exchange, or
\* changes tokens or currentUser.
C24_UnmountCancelsTimer ==
    [][ ~app'.mounted =>
            /\ PendingTimers' = {}
            /\ lastOp'.op # "timer"
            /\ refreshFetch' = refreshFetch
            /\ tokens' = tokens
            /\ currentUser' = currentUser ]_vars

\* the provider unmounted during a session whose timer was pending and
\* already due
C24_Witness ==
    /\ lastOp = Op("unmount", "ok")
    /\ ~app.mounted
    /\ IsPresent(tokens)
    /\ refreshInterval > 0
    /\ now >= tokens.accessExpiresAt - SAFETY_MARGIN
    /\ refreshFetch.state = "none"
    /\ PendingTimers = {}

(***************************************************************************)
(* C25                                                                     *)
(***************************************************************************)
\* C25: when onAuthChange throws while setTokens is committing, the store
\* still ends with the new tokens and the currentUser derived from them,
\* for the commit of a login, of a refresh that succeeded, of a logout and
\* of a forced logout.  Violated under SpecNotifierThrows for the refresh:
\* the throw makes the fetcher reject, useSWR runs onError, and the
\* session ends instead.
C25_NotifierFailureKeepsCommit ==
    [][ notifierThrows =>
          /\ (lastOp'.op \in {"loginResponse", "refreshResponse"} /\ delivered'.ok) =>
                /\ tokens' = ToTokens(delivered'.data)
                /\ currentUser' = ProvisionalUser
          /\ (lastOp'.op = "logout" /\ IsPresent(currentUser)) =>
                /\ tokens' = Null
                /\ currentUser' = Null
          /\ (lastOp'.op = "refreshResponse" /\ ~delivered'.ok /\ IsPresent(tokens)) =>
                /\ tokens' = Null
                /\ currentUser' = Null ]_vars

(***************************************************************************)
(* C26                                                                     *)
(***************************************************************************)
\* C26: absent tokens stay absent until a login succeeds: the only step
\* that takes the tokens from not present to present is the commit of a
\* login.  Violated: a refresh exchange in flight at a logout commits its
\* pair when it is answered.
C26_OnlyLoginBringsTokensBack ==
    [][ (~IsPresent(tokens) /\ IsPresent(tokens')) =>
            lastOp'.op = "loginResponse" ]_vars

(***************************************************************************)
(* C27                                                                     *)
(***************************************************************************)
\* before any commit: tokens and currentUser are still undefined
Uninitialized == tokens = Undef /\ currentUser = Undef

\* C27: in the uninitialized state the user counts as not logged in:
\* login() passes its guard and sends POST /v3/auth/login, and logout()
\* fails with NotAuthenticated; neither changes tokens or currentUser or
\* calls onAuthChange.
C27_UninitializedIsLoggedOut ==
    [][ Uninitialized =>
          /\ lastOp'.op = "login" =>
                /\ lastOp'.result = "awaiting"
                /\ \E i \in Submits :
                      /\ logins[i].pc = "idle"
                      /\ logins'[i].pc = "awaiting"
          /\ lastOp'.op = "logout" =>
                lastOp'.result = NotAuthenticated
          /\ lastOp'.op \in {"login", "logout"} =>
                /\ tokens' = Undef
                /\ currentUser' = Undef
                /\ emitted' = <<>> ]_vars

\* logout() was rejected before any login had been answered, with a login
\* exchange on its way
C27_Witness ==
    /\ lastOp = Op("logout", NotAuthenticated)
    /\ Uninitialized
    /\ \E i \in Submits : logins[i].pc = "awaiting"

====
